---- MODULE Spec2Model ----
(***************************************************************************)
(* Model of the Upbit announcement monitor (src/upbit_monitor.py) with the *)
(* title parser's raise-on-miss wrapper (src/extract.py) and the order     *)
(* client (src/tabdeal.py).                                                *)
(*                                                                         *)
(* run_monitor is one thread of control; pc is its position:               *)
(*   "init"    run_monitor entered, Initializing fetch not yet done        *)
(*   "poll"    top of the while loop, check_new_announcements not called   *)
(*   "react"   inside the loop over new_announcements (line 316)           *)
(*   "sleep"   in time.sleep(check_interval_seconds) (line 339 or 346)     *)
(*   "stopped" run_monitor left on KeyboardInterrupt                       *)
(*   "crashed" run_monitor left by an exception nothing caught             *)
(*                                                                         *)
(* An announcement is identified by its id.  Its title is read by the       *)
(* program exactly once, when the reaction to it runs, so the feed's choice *)
(* of it is drawn at that step.  Every item carries a listed_at that is an  *)
(* ISO timestamp, as the feed's items do, so kst_to_utc does not raise.     *)
(*                                                                         *)
(* Specifications, all over the same variables:                            *)
(*   Spec, FairSpec  the run of a monitor constructed without proxies      *)
(*   DeliverySpec    the same run with undelivered notifications followed  *)
(*   RotationSpec    the run of a monitor constructed with a proxy list    *)
(*   CycleSpec       one polling cycle, with the feed's response kept      *)
(*   FetcherSpec     fetch_announcements and the proxy rotator, call by call*)
(*   ParserSpec      MarketSupportExtractor.extract_market_info on one title*)
(***************************************************************************)
EXTENDS Integers, Sequences, FiniteSets

\* ------------------------------------------------------------- bounds
MaxId == 2          \* announcement ids are 1..MaxId
MaxNotices == 2     \* longest notice list a feed response holds
MaxTime == 3601     \* the clock is followed up to MaxTime and stands after it
MaxPool == 2        \* longest proxy_list the monitor is constructed with
MaxTokens == 2      \* most comma-separated tokens in a title's market clause

\* -------------------------------------------------- program constants
HeartbeatInterval == 3600
None == -1

Ids == 1..MaxId
\* The notice list of a feed response, newest first; the feed is not trusted to
\* keep ids apart or in order.
Notices == UNION {[1..n -> Ids] : n \in 0..MaxNotices}
\* The feed when monitoring starts: ids are handed out in increasing order, so a
\* feed that has published k announcements lists k, ..., 1.
StartupNotices ==
    {[i \in 1..k |-> k + 1 - i] : k \in 0..(IF MaxId < MaxNotices THEN MaxId ELSE MaxNotices)}

\* Time that passes between two polling cycles (the sleep and the calls).
Elapsed == {HeartbeatInterval \div 2, HeartbeatInterval + 1}

\* A proxy string "ip:port:username:password" is its endpoint and the number of
\* fields split(':') finds in it; an endpoint is a positive number.  The lists
\* are made of two well-formed strings and one that lacks a field.
Hosts == {1, 2}
ProxyStrings == [parts : {4}, host : Hosts] \cup {[parts |-> 3, host |-> 1]}
ProxyLists == UNION {[1..n -> ProxyStrings] : n \in 0..MaxPool}
\* The fetcher is followed for MaxCalls calls: one round of the longest pool
\* and one call more.
MaxCalls == MaxPool + 1

\* How one HTTP GET of the feed ends.
FetchOutcomes ==
    {"ok", "proxy_error", "network_error", "http_error", "bad_json", "no_notices"}
\* What the title of an announcement is to the parser.
Titles == {"listing", "nomatch"}
\* How TabdealAPI.place_order ends.
OrderOutcomes == {"bought", "unknown_market", "price_error", "rejected"}
\* How the POST to the Telegram API ends.
TelegramOutcomes == {"sent", "request_error"}

\* ---------------------------------------------------------- titles
\* A title is a sequence of lexemes: the literal "Market Support for" ("PFX"),
\* a blank, the punctuation of the pattern, the keyword "Market", and words.
\* UpperWords are the words made of [A-Z0-9] only.
UpperWords == {"OMNI", "KRW", "BTC"}
Words == UpperWords \cup {"Omni", "Network", "Market"}
Names == {<<"Omni">>, <<"Omni", " ", "Network">>}
Symbols == {<<"OMNI">>}
\* A token of the market clause: a currency, a currency with the keyword after
\* a blank, a currency with the keyword written onto it, or nothing.
ClauseTokens ==
    {<<"KRW">>, <<"BTC">>, <<"KRW", " ", "Market">>, <<"BTC", "Market">>, <<>>}
TokenLists == UNION {[1..n -> ClauseTokens] : n \in 1..MaxTokens}
\* The blanks of a title: before the symbol group, between the groups, inside
\* the symbol group, after the market group's "(", before and after each
\* comma, and before the trailing keyword.
Canonical ==
    [before_symbol |-> 0, between |-> 0, in_symbol |-> 0, open |-> 0,
     before_comma |-> 0, after_comma |-> 1, before_market |-> 1]
Spacings ==
    {Canonical,
     [Canonical EXCEPT !.before_symbol = 1],
     [Canonical EXCEPT !.between = 1],
     [Canonical EXCEPT !.in_symbol = 1],
     [Canonical EXCEPT !.open = 1],
     [Canonical EXCEPT !.before_comma = 1],
     [Canonical EXCEPT !.after_comma = 0],
     [Canonical EXCEPT !.after_comma = 2],
     [Canonical EXCEPT !.before_market = 0],
     [Canonical EXCEPT !.before_market = 2]}
\* A listing title as the exchange writes it.
Shapes ==
    [kind : {"listing"}, name : Names, symbol : Symbols, tokens : TokenLists,
     spacing : Spacings]
\* Titles of other announcements.
OtherTitles ==
    {<<"Omni", " ", "Network">>,
     <<"PFX", " ", "Omni", "(", "OMNI", ")">>,
     <<"PFX", " ", "Omni", "(", "Omni", ")", "(", "KRW", " ", "Market", ")">>,
     <<"PFX", " ", "Omni", "(", "OMNI", ")", "(", "KRW", ")">>,
     <<"Omni", "(", "OMNI", ")", "(", "KRW", " ", "Market", ")">>}

VARIABLES
    pc,
    seen_announcements,     \* self.seen_announcements
    last_refresh_time,      \* self.last_refresh_time, None or a clock value
    now,                    \* time.time(), seconds since run_monitor started
    new_announcements,      \* the part of new_announcements not yet reacted to
    \* ---- history, read by no action guard
    fetch,                  \* the last fetch_announcements call: who called it,
                            \* whether it got no notice list, whether it raised,
                            \* and the length of the sequence it returned
    startup_ids,            \* ids in the feed when the Initializing fetch ran
    initial_ids,            \* ids the Initializing fetch returned
    claimed,                \* ids this cycle found new
    reacted,                \* ids this cycle invoked a reaction for
    heartbeat_sent,         \* this cycle sent the heartbeat
    cycle_error,            \* what the loop boundary caught in this cycle
    react,                  \* per id: what process_new_announcement_message did
    heartbeat_log,          \* the clock values at which a heartbeat was sent
    fetched,                \* ids some fetch_announcements call has returned
    undelivered,            \* the last id whose notification Telegram did not
                            \* take, None if there is none (DeliverySpec)
    \* ---- the proxy rotator
    proxy_list,             \* self.proxy_list
    parsed_proxies,         \* self.parsed_proxies
    proxy_index,            \* self.proxy_index
    \* ---- history of the fetcher followed call by call (FetcherSpec)
    proxy_log,              \* what get_next_proxy returned, call after call
    call,                   \* the last call: its first outcome, the notice list
                            \* of the response it decoded, the requests it
                            \* issued, and what it returned
    \* ---- one polling cycle followed from its feed response (CycleSpec)
    feed,                   \* the notice list of the response, newest first
    \* ---- the title parser followed title by title (ParserSpec)
    shape,                  \* how the title is made
    text,                   \* the title handed to extract_market_info
    parsed                  \* what extract_market_info returned for it

vars == <<pc, seen_announcements, last_refresh_time, now, new_announcements,
          fetch, startup_ids, initial_ids, claimed, reacted,
          heartbeat_sent, cycle_error, react, heartbeat_log,
          fetched, undelivered,
          proxy_list, parsed_proxies, proxy_index, proxy_log, call, feed,
          shape, text, parsed>>

\* What only the fetcher's, the cycle's and the parser's own specifications
\* record.
observed == <<proxy_log, call, feed, shape, text, parsed>>

Range(s) == {s[i] : i \in DOMAIN s}

NoShape == [kind |-> "none"]
Pending == [status |-> "pending"]
NoCall ==
    [first |-> "none", notices |-> <<>>, requests |-> <<>>, raised |-> FALSE,
     value |-> <<>>]
NoFetch ==
    [by |-> "none", failed |-> FALSE, raised |-> FALSE, returned |-> 0]
NoReaction ==
    [invoked |-> 0, title |-> "none", raised |-> "no", orders |-> 0,
     order_raised |-> FALSE, notified |-> 0, response |-> "none"]

\* ------------------------------------------------------- proxy rotator
\* _parse_proxy_list, lines 75-100: the entries with four fields, in order.
RECURSIVE parse_proxy_list(_)
parse_proxy_list(list) ==
    IF list = <<>> THEN <<>>
    ELSE IF Head(list).parts = 4
         THEN <<Head(list).host>> \o parse_proxy_list(Tail(list))
         ELSE parse_proxy_list(Tail(list))

\* A rotator that hands out the entry after the cursor's.
get_next_proxy_skip(pool, index) ==
    IF pool = <<>> THEN [proxy |-> None, index |-> index]
    ELSE [proxy |-> pool[((index + 1) % Len(pool)) + 1],
          index |-> (index + 1) % Len(pool)]

\* A rotator that hands out the entry under the cursor and leaves the cursor.
get_next_proxy_stays(pool, index) ==
    IF pool = <<>> THEN [proxy |-> None, index |-> index]
    ELSE [proxy |-> pool[index + 1], index |-> index]

\* get_next_proxy, lines 102-115: the proxy returned and the cursor after it.
get_next_proxy(pool, index) ==
    IF pool = <<>> THEN [proxy |-> None, index |-> index]
    ELSE [proxy |-> pool[index + 1], index |-> (index + 1) % Len(pool)]

\* ------------------------------------------------- fetch_announcements
\* Lines 129-145: the first request goes through the proxy if there is one.
FirstRoute(proxy) == IF proxy = None THEN "direct" ELSE "proxy"

\* A fetcher that retries after every failed first attempt.
RetryDirect_always(exc) == exc # "none"

\* Line 156: only a ProxyError of the first attempt leads to the direct retry.
RetryDirect(exc) == exc = "ProxyError"

\* A decoding that hands the notice list on as it came.
Reverse_not(s) == s

\* announcements.reverse()
Reverse(s) == [i \in 1..Len(s) |-> s[Len(s) + 1 - i]]

\* One request and the decoding of its response (lines 147-154, 163-170):
\* "returned" with the reversed notice list, or the exception raised.
Attempt(outcome, notices) ==
    CASE outcome = "ok" -> [exc |-> "none", value |-> Reverse(notices)]
      [] outcome = "proxy_error" -> [exc |-> "ProxyError", value |-> <<>>]
      [] outcome = "network_error" -> [exc |-> "RequestException", value |-> <<>>]
      [] outcome = "http_error" -> [exc |-> "RequestException", value |-> <<>>]
      [] outcome = "bad_json" -> [exc |-> "JSONDecodeError", value |-> <<>>]
      [] outcome = "no_notices" -> [exc |-> "KeyError", value |-> <<>>]

\* The except clauses of the first attempt, lines 156-180.  The fallback's own
\* handler is "except Exception"; the outer ones name three exception types.
fetch_announcements(proxy, first, second, notices) ==
    LET a == Attempt(first, notices)
        b == Attempt(second, notices)
        one == <<FirstRoute(proxy)>>
    IN  CASE a.exc = "none" ->
                [raised |-> FALSE, value |-> a.value, requests |-> one]
          [] a.exc # "none" /\ RetryDirect(a.exc) ->
                IF b.exc = "none"
                THEN [raised |-> FALSE, value |-> b.value,
                      requests |-> Append(one, "direct")]
                ELSE [raised |-> FALSE, value |-> <<>>,
                      requests |-> Append(one, "direct")]
          [] a.exc \in {"RequestException", "JSONDecodeError"} /\ ~RetryDirect(a.exc) ->
                [raised |-> FALSE, value |-> <<>>, requests |-> one]
          [] OTHER -> [raised |-> TRUE, value |-> <<>>, requests |-> one]

\* The fetch calls that can happen: the second request exists only after a
\* ProxyError of the first.
FetchCalls ==
    {c \in [first : FetchOutcomes, second : FetchOutcomes \cup {"none"}] :
        (c.second = "none") <=> (c.first # "proxy_error")}

\* What the history keeps of a call c that ended as r for caller by.
FetchRecord(by, c, r) ==
    [by |-> by,
     failed |-> "ok" \notin {c.first, c.second},
     raised |-> r.raised,
     returned |-> Len(r.value)]

\* ---------------------------------------------------- run_monitor loop
\* A loop boundary that lets the exception through.
ExceptHandler_reraise == "crashed"

\* "except Exception" at the loop boundary: log, sleep, go on.
ExceptHandler == "sleep"

\* __init__, lines 40-73, for a given proxy_list argument.
Construct(list) ==
    /\ pc = "init"
    /\ seen_announcements = {}
    /\ last_refresh_time = None
    /\ now = 0
    /\ new_announcements = <<>>
    /\ fetch = NoFetch
    /\ startup_ids = {}
    /\ initial_ids = {}
    /\ claimed = {}
    /\ reacted = {}
    /\ heartbeat_sent = FALSE
    /\ cycle_error = "none"
    /\ react = [id \in Ids |-> NoReaction]
    /\ heartbeat_log = <<>>
    /\ fetched = {}
    /\ undelivered = None
    /\ feed = <<>>
    /\ proxy_list = list
    /\ proxy_index = 0
    /\ parsed_proxies = parse_proxy_list(list)
    /\ proxy_log = <<>>
    /\ call = NoCall
    /\ shape = NoShape
    /\ text = <<>>
    /\ parsed = Pending

\* The monitor constructed without a proxy list (the default of line 40).
Init == Construct(<<>>)

\* run_monitor lines 329-334: the Initializing fetch, outside any try.
InitFetch ==
    /\ pc = "init"
    /\ \E notices \in StartupNotices, c \in FetchCalls :
          LET g == get_next_proxy(parsed_proxies, proxy_index)
              r == fetch_announcements(g.proxy, c.first, c.second, notices)
          IN  /\ proxy_index' = g.index
              /\ fetch' = FetchRecord("init", c, r)
              /\ startup_ids' = Range(notices)
              /\ initial_ids' = Range(r.value)
              /\ fetched' = fetched \cup Range(r.value)
              /\ seen_announcements' = seen_announcements \cup Range(r.value)
              /\ pc' = IF r.raised THEN "crashed" ELSE "poll"
    /\ UNCHANGED <<last_refresh_time, now, new_announcements, claimed, reacted,
                   heartbeat_sent, cycle_error, react,
                   heartbeat_log, undelivered, proxy_list, parsed_proxies,
                   observed>>

\* ---------------------------------------------- check_new_announcements
\* A ledger that never answers "already seen".
IsSeen_never(id, seen) == FALSE

\* Line 298: "if announcement_id in self.seen_announcements: continue".
IsSeen(id, seen) == id \in seen

\* A ledger that keeps the last id only.
MarkSeen_only(id, seen) == {id}

\* Line 305: self.seen_announcements.add(announcement_id).
MarkSeen(id, seen) == seen \cup {id}

\* A loop that puts each new announcement before the ones found earlier.
RECURSIVE Partition_newestFirst(_, _, _)
Partition_newestFirst(anns, seen, new) ==
    IF anns = <<>>
    THEN [new |-> new, seen |-> seen]
    ELSE IF IsSeen(Head(anns), seen)
         THEN Partition_newestFirst(Tail(anns), seen, new)
         ELSE Partition_newestFirst(Tail(anns), MarkSeen(Head(anns), seen),
                                    <<Head(anns)>> \o new)

\* The loop of lines 293-305 over the fetch result, oldest first: the ids found
\* new, in order, and the ledger after it.
RECURSIVE Partition(_, _, _)
Partition(anns, seen, new) ==
    IF anns = <<>>
    THEN [new |-> new, seen |-> seen]
    ELSE IF IsSeen(Head(anns), seen)
         THEN Partition(Tail(anns), seen, new)
         ELSE Partition(Tail(anns), MarkSeen(Head(anns), seen),
                        Append(new, Head(anns)))

\* The interval test with >= for >.
HeartbeatDue_atInterval(last, t) == last = None \/ t - last >= HeartbeatInterval

\* Line 310: no heartbeat yet, or the last one more than an hour ago.
HeartbeatDue(last, t) == last = None \/ t - last > HeartbeatInterval

\* A sender that lets the RequestException through.
send_new_telegram_message_raises(outcome) ==
    [raised |-> outcome # "sent", ok |-> outcome = "sent"]

\* send_new_telegram_message, lines 223-249: True or False, a RequestException
\* is caught and logged.
send_new_telegram_message(outcome) == [raised |-> FALSE, ok |-> outcome = "sent"]

\* check_new_announcements up to the loop over new_announcements, for a fetch
\* that goes as c on a feed that answers notices: the fetch, the early return
\* on an empty result, the partition and the heartbeat (whose delivery result
\* line 313 drops).
check_new_announcements(c, notices) ==
    LET g == get_next_proxy(parsed_proxies, proxy_index)
        r == fetch_announcements(g.proxy, c.first, c.second, notices)
        p == Partition(r.value, seen_announcements, <<>>)
        beat == /\ ~r.raised
                /\ r.value # <<>>
                /\ Len(p.new) = 0
                /\ HeartbeatDue(last_refresh_time, now)
    IN  /\ proxy_index' = g.index
        /\ fetch' = FetchRecord("cycle", c, r)
        /\ fetched' = fetched \cup Range(r.value)
        /\ claimed' = {id \in Range(r.value) : id \notin seen_announcements}
        /\ seen_announcements' = p.seen
        /\ new_announcements' = p.new
        /\ heartbeat_sent' = beat
        /\ heartbeat_log' =
              IF beat THEN Append(heartbeat_log, now) ELSE heartbeat_log
        /\ last_refresh_time' = IF beat THEN now ELSE last_refresh_time
        /\ cycle_error' = IF r.raised THEN "fetch" ELSE "none"
        /\ pc' = IF r.raised THEN ExceptHandler
                 ELSE IF p.new = <<>> THEN "sleep" ELSE "react"
        /\ UNCHANGED <<now, startup_ids, initial_ids, reacted, react,
                       undelivered, proxy_list, parsed_proxies, proxy_log,
                       call, shape, text, parsed>>

\* A polling cycle's call of check_new_announcements.  A request that fails
\* brings no notice list.
CycleFetch ==
    /\ pc = "poll"
    /\ \E c \in FetchCalls :
       \E notices \in IF "ok" \in {c.first, c.second} THEN Notices ELSE {<<>>} :
          check_new_announcements(c, notices)
    /\ UNCHANGED feed

\* ------------------------------------- process_new_announcement_message
\* format_announcement_message, lines 262-267: extract_from_text raises "No match
\* found" (extract.py line 138) on a title the pattern does not match; FALSE:
\* the message is built.
format_announcement_message(title) == title = "nomatch"

\* TabdealAPI.place_order, tabdeal.py lines 113-139: raises for an unknown market
\* (117), a failed price request (107) and a rejected order (133); else the text.
place_order(outcome) ==
    [raised |-> outcome # "bought",
     text |-> IF outcome = "bought" THEN "bought" ELSE "error"]

\* The order step without its try: the exception of place_order goes on.
CatchOrderError_propagate(order) ==
    [raised |-> order.raised, response |-> order.text]

\* Lines 201-207: try place_order, except Exception: response = str(e).
CatchOrderError(order) == [raised |-> FALSE, response |-> order.text]

\* Lines 197-221.  raised: what left the function, "no" when it returned.
process_new_announcement_message(title, outcome, tg) ==
    LET o == place_order(outcome)
        c == CatchOrderError(o)
        t == send_new_telegram_message(tg)
    IN  IF format_announcement_message(title)
        THEN [raised |-> "no_match", title |-> title, orders |-> 0,
              order_raised |-> FALSE, notified |-> 0, response |-> "none",
              delivered |-> FALSE]
        ELSE IF c.raised
        THEN [raised |-> "order", title |-> title, orders |-> 1,
              order_raised |-> TRUE, notified |-> 0, response |-> "none",
              delivered |-> FALSE]
        ELSE IF t.raised
        THEN [raised |-> "telegram", title |-> title, orders |-> 1,
              order_raised |-> o.raised, notified |-> 1,
              response |-> c.response, delivered |-> FALSE]
        ELSE [raised |-> "no", title |-> title, orders |-> 1,
              order_raised |-> o.raised, notified |-> 1,
              response |-> c.response, delivered |-> t.ok]

\* One turn of the loop of lines 316-318: the reaction to the oldest new
\* announcement not yet reacted to.  An exception leaves the loop and the cycle.
\* With track, a notification Telegram did not take is kept in undelivered.
Reaction(track) ==
    /\ pc = "react"
    /\ new_announcements # <<>>
    /\ \E title \in Titles, outcome \in OrderOutcomes, tg \in TelegramOutcomes :
          LET id == Head(new_announcements)
              r == process_new_announcement_message(title, outcome, tg)
              rest == Tail(new_announcements)
          IN  /\ react' = [react EXCEPT ![id] =
                    [invoked |-> @.invoked + 1,
                     title |-> r.title,
                     raised |-> r.raised,
                     orders |-> @.orders + r.orders,
                     order_raised |-> r.order_raised,
                     notified |-> @.notified + r.notified,
                     response |-> r.response]]
              /\ reacted' = reacted \cup {id}
              /\ undelivered' =
                    IF track /\ r.notified = 1 /\ ~r.delivered
                    THEN id ELSE undelivered
              /\ cycle_error' = IF r.raised # "no" THEN "reaction" ELSE cycle_error
              /\ new_announcements' = IF r.raised # "no" THEN <<>> ELSE rest
              /\ pc' = IF r.raised # "no" THEN ExceptHandler
                       ELSE IF rest = <<>> THEN "sleep" ELSE "react"
    /\ UNCHANGED <<seen_announcements, last_refresh_time, now, fetch,
                   startup_ids, initial_ids, claimed, heartbeat_sent,
                   heartbeat_log, fetched, proxy_list, parsed_proxies,
                   proxy_index, observed>>

React == Reaction(FALSE)

\* time.sleep(check_interval_seconds), lines 339 and 346; the cycle's locals go.
Sleep ==
    /\ pc = "sleep"
    /\ \E d \in Elapsed : now' = IF now + d <= MaxTime THEN now + d ELSE now
    /\ pc' = "poll"
    /\ new_announcements' = <<>>
    /\ fetch' = NoFetch
    /\ claimed' = {}
    /\ reacted' = {}
    /\ heartbeat_sent' = FALSE
    /\ cycle_error' = "none"
    /\ UNCHANGED <<seen_announcements, last_refresh_time, startup_ids,
                   initial_ids, react, heartbeat_log, fetched, undelivered,
                   proxy_list, parsed_proxies, proxy_index, observed>>

\* KeyboardInterrupt: the explicit stop signal, at any point of the run;
\* run_monitor returns (line 343) or is left by the interrupt, its cycle is over.
Stop ==
    /\ pc \in {"init", "poll", "react", "sleep"}
    /\ pc' = "stopped"
    /\ new_announcements' = <<>>
    /\ fetch' = NoFetch
    /\ claimed' = {}
    /\ reacted' = {}
    /\ heartbeat_sent' = FALSE
    /\ cycle_error' = "none"
    /\ UNCHANGED <<seen_announcements, last_refresh_time, now, startup_ids,
                   initial_ids, react, heartbeat_log, fetched, undelivered,
                   proxy_list, parsed_proxies, proxy_index, observed>>

Next == InitFetch \/ CycleFetch \/ React \/ Sleep \/ Stop

Spec == Init /\ [][Next]_vars

\* run_monitor is the only thread and each of its steps ends (the feed and
\* Telegram requests carry timeouts, the sleeps are finite); the stop signal is
\* the user's and may never come.
Step == InitFetch \/ CycleFetch \/ React \/ Sleep
FairSpec == Spec /\ WF_vars(Step)

\* ------------------------------------- the run with deliveries followed
TrackedReact == Reaction(TRUE)
DeliveryNext == InitFetch \/ CycleFetch \/ TrackedReact \/ Sleep \/ Stop
DeliverySpec == Init /\ [][DeliveryNext]_vars

\* ------------------------------- the run of a monitor that has proxies
\* The proxy lists the whole run is followed with: none, and the longest ones
\* of endpoints that differ from their neighbours, the first entry well formed
\* or lacking a field.
RotationLists ==
    {list \in ProxyLists :
        /\ Len(list) \in {0, MaxPool}
        /\ \A i \in 1..Len(list) :
              IF i = 1 THEN list[i].host = 1
              ELSE list[i].parts = 4 /\ list[i].host # list[i - 1].host}

\* A polling cycle on a feed that lists its ids newest first, as at startup.
OrderedCycle ==
    /\ pc = "poll"
    /\ \E c \in FetchCalls :
       \E notices \in IF "ok" \in {c.first, c.second}
                       THEN StartupNotices ELSE {<<>>} :
          check_new_announcements(c, notices)
    /\ UNCHANGED feed

RotationInit == \E list \in RotationLists : Construct(list)
RotationNext == InitFetch \/ OrderedCycle \/ React \/ Sleep \/ Stop
RotationSpec == RotationInit /\ [][RotationNext]_vars

\* --------------------------------- one polling cycle, from its response
\* check_new_announcements with the response of its fetch kept.
ObservedFetch ==
    /\ pc = "poll"
    /\ \E c \in FetchCalls :
       \E notices \in IF "ok" \in {c.first, c.second} THEN Notices ELSE {<<>>} :
          /\ check_new_announcements(c, notices)
          /\ feed' = notices

\* The top of the loop with any ledger the Initializing fetch can have left.
CycleInit ==
    /\ pc = "poll"
    /\ seen_announcements \in SUBSET Ids
    /\ initial_ids = seen_announcements
    /\ startup_ids = seen_announcements
    /\ fetched = seen_announcements
    /\ last_refresh_time = None
    /\ now = 0
    /\ new_announcements = <<>>
    /\ fetch = NoFetch
    /\ claimed = {}
    /\ reacted = {}
    /\ heartbeat_sent = FALSE
    /\ cycle_error = "none"
    /\ react = [id \in Ids |-> NoReaction]
    /\ heartbeat_log = <<>>
    /\ undelivered = None
    /\ feed = <<>>
    /\ proxy_list = <<>>
    /\ proxy_index = 0
    /\ parsed_proxies = <<>>
    /\ proxy_log = <<>>
    /\ call = NoCall
    /\ shape = NoShape
    /\ text = <<>>
    /\ parsed = Pending
CycleNext == ObservedFetch \/ TrackedReact
CycleSpec == CycleInit /\ [][CycleNext]_vars

\* ------------------------------------------ the fetcher, call by call
\* The outcome of the first request and, when that is not a response decoded
\* and returned at once (line 154), the outcome a second request would have;
\* the code decides whether the second is issued.
FetcherCalls ==
    {c \in [first : FetchOutcomes, second : FetchOutcomes \cup {"none"}] :
        (c.second = "none") <=> (c.first = "ok")}

\* One fetch_announcements call, lines 117-180, with everything it did kept.
\* A notice list is in the response the call decodes.
Fetch ==
    /\ Len(proxy_log) < MaxCalls
    /\ \E c \in FetcherCalls :
       \E notices \in IF c.first = "ok" \/ (c.first = "proxy_error" /\ c.second = "ok")
                       THEN Notices ELSE {<<>>} :
          LET g == get_next_proxy(parsed_proxies, proxy_index)
              r == fetch_announcements(g.proxy, c.first, c.second, notices)
          IN  /\ proxy_index' = g.index
              /\ proxy_log' = Append(proxy_log, g.proxy)
              /\ call' = [first |-> c.first, notices |-> notices,
                          requests |-> r.requests, raised |-> r.raised,
                          value |-> r.value]
    /\ UNCHANGED <<pc, seen_announcements, last_refresh_time, now,
                   new_announcements, fetch, startup_ids, initial_ids, claimed,
                   reacted, heartbeat_sent, cycle_error, react, heartbeat_log,
                   fetched, undelivered, feed,
                   proxy_list, parsed_proxies, shape, text, parsed>>

FetcherInit == \E list \in ProxyLists : Construct(list)
FetcherNext == Fetch
FetcherSpec == FetcherInit /\ [][FetcherNext]_vars

\* ------------------------------------------------ extract.py, the parser
Blanks(n) == [i \in 1..n |-> " "]

RECURSIVE JoinTokens(_, _)
JoinTokens(tokens, sp) ==
    IF Len(tokens) = 1 THEN tokens[1]
    ELSE tokens[1] \o Blanks(sp.before_comma) \o <<",">> \o Blanks(sp.after_comma)
         \o JoinTokens(Tail(tokens), sp)

\* The title of a listing announcement of the given make.
Build(sh) ==
    <<"PFX", " ">> \o sh.name \o Blanks(sh.spacing.before_symbol)
    \o <<"(">> \o Blanks(sh.spacing.in_symbol) \o sh.symbol
    \o Blanks(sh.spacing.in_symbol) \o <<")">> \o Blanks(sh.spacing.between)
    \o <<"(">> \o Blanks(sh.spacing.open) \o JoinTokens(sh.tokens, sh.spacing)
    \o Blanks(sh.spacing.before_market) \o <<"Market", ")">>

\* str.strip()
RECURSIVE LStrip(_)
LStrip(s) == IF s # <<>> /\ Head(s) = " " THEN LStrip(Tail(s)) ELSE s
RECURSIVE RStrip(_)
RStrip(s) ==
    IF s # <<>> /\ s[Len(s)] = " " THEN RStrip(SubSeq(s, 1, Len(s) - 1)) ELSE s
Strip(s) == LStrip(RStrip(s))

\* Line 22, ' '.join(text.split()): runs of blanks become one, none at the ends.
RECURSIVE Collapse(_)
Collapse(s) ==
    IF Len(s) < 2 THEN s
    ELSE IF s[1] = " " /\ s[2] = " " THEN Collapse(Tail(s))
    ELSE <<s[1]>> \o Collapse(Tail(s))
Clean(s) == Strip(Collapse(s))

\* The pattern of line 9 on a cleaned text t, piece by piece.
\* "Market Support for\s+": where a match can start.
Starts(t) == {i \in 1..(Len(t) - 1) : t[i] = "PFX" /\ t[i + 1] = " "}
\* "(.+?)\(": where group 1 can end, the next lexeme being "(".
NameEnds(t, i) == {a \in (i + 2)..(Len(t) - 1) : t[a + 1] = "("}
\* "([A-Z0-9]+)\)": where group 2 ends, ")" following.
SymbolEnds(t, a) ==
    {b \in (a + 2)..(Len(t) - 1) :
        t[b + 1] = ")" /\ \A k \in (a + 2)..b : t[k] \in UpperWords}
\* "\s*\(": the position after the "(" of the market group, 0 if there is none.
ClauseStart(t, b) ==
    LET q == IF b + 2 <= Len(t) /\ t[b + 2] = " " THEN b + 3 ELSE b + 2
    IN  IF q <= Len(t) /\ t[q] = "(" THEN q + 1 ELSE 0
\* "(.+?)\s+Market\)": where group 3 can end.
ClauseEnds(t, from) ==
    {e \in from..(Len(t) - 3) :
        t[e + 1] = " " /\ t[e + 2] = "Market" /\ t[e + 3] = ")"}

\* Every way the pattern matches in t: start, end of group 1, end of group 2,
\* start and end of group 3.
Matches(t) ==
    UNION {UNION {UNION {
        {<<i, a, b, ClauseStart(t, b), e>> : e \in ClauseEnds(t, ClauseStart(t, b))}
            : b \in {x \in SymbolEnds(t, a) : ClauseStart(t, x) # 0}}
            : a \in NameEnds(t, i)}
            : i \in Starts(t)}

\* re.search: the leftmost start, and for it the shortest group 1 and the
\* shortest group 3 (both are lazy).
Earlier(m, n) ==
    \/ m[1] < n[1]
    \/ m[1] = n[1] /\ m[2] < n[2]
    \/ m[1] = n[1] /\ m[2] = n[2] /\ m[5] <= n[5]
Search(t) == CHOOSE m \in Matches(t) : \A n \in Matches(t) : Earlier(m, n)

\* markets_text.split(',')
RECURSIVE Split(_, _)
Split(s, cur) ==
    IF s = <<>> THEN <<cur>>
    ELSE IF Head(s) = "," THEN <<cur>> \o Split(Tail(s), <<>>)
    ELSE Split(Tail(s), Append(cur, Head(s)))

\* Line 61, re.sub(r'\s*Market\s*', '', currency): every "Market" goes, and
\* the blanks next to it.
RemoveMarket(s) ==
    LET drop(k) ==
            \/ s[k] = "Market"
            \/ s[k] = " " /\ ((k > 1 /\ s[k - 1] = "Market")
                               \/ (k < Len(s) /\ s[k + 1] = "Market"))
        F[k \in 0..Len(s)] ==
            IF k = 0 THEN <<>>
            ELSE IF drop(k) THEN F[k - 1] ELSE Append(F[k - 1], s[k])
    IN  F[Len(s)]

\* parse_quote_currencies, lines 44-65.
parse_quote_currencies(markets_text) ==
    LET currencies == Split(markets_text, <<>>)
        cleaned == [k \in 1..Len(currencies) |-> Strip(RemoveMarket(Strip(currencies[k])))]
    IN  SelectSeq(cleaned, LAMBDA c : c # <<>>)

NoRecord == [status |-> "none"]

\* extract_market_info, lines 11-42.
extract_market_info(title) ==
    LET cleaned_text == Clean(title)
    IN  IF Matches(cleaned_text) = {} THEN NoRecord
        ELSE LET m == Search(cleaned_text)
             IN  [status |-> "record",
                  symbol |-> Strip(SubSeq(cleaned_text, m[2] + 2, m[3])),
                  name |-> Strip(SubSeq(cleaned_text, m[1] + 2, m[2])),
                  quote |-> parse_quote_currencies(
                                Strip(SubSeq(cleaned_text, m[4], m[5])))]

\* One call of extract_market_info on the title at hand.
Parse ==
    /\ parsed = Pending
    /\ parsed' = extract_market_info(text)
    /\ UNCHANGED <<pc, seen_announcements, last_refresh_time, now,
                   new_announcements, fetch, startup_ids, initial_ids, claimed,
                   reacted, heartbeat_sent, cycle_error, react, heartbeat_log,
                   fetched, undelivered, feed,
                   proxy_list, parsed_proxies, proxy_index, proxy_log, call,
                   shape, text>>

\* The parser starts with a title: a listing title of some make, or another.
ParserInit ==
    /\ pc = "init"
    /\ seen_announcements = {}
    /\ last_refresh_time = None
    /\ now = 0
    /\ new_announcements = <<>>
    /\ fetch = NoFetch
    /\ startup_ids = {}
    /\ initial_ids = {}
    /\ claimed = {}
    /\ reacted = {}
    /\ heartbeat_sent = FALSE
    /\ cycle_error = "none"
    /\ react = [id \in Ids |-> NoReaction]
    /\ heartbeat_log = <<>>
    /\ fetched = {}
    /\ undelivered = None
    /\ feed = <<>>
    /\ proxy_list = <<>>
    /\ proxy_index = 0
    /\ parsed_proxies = <<>>
    /\ proxy_log = <<>>
    /\ call = NoCall
    /\ parsed = Pending
    /\ \/ \E sh \in Shapes : shape = sh /\ text = Build(sh)
       \/ \E t \in OtherTitles : shape = [kind |-> "other"] /\ text = t
ParserNext == Parse
ParserSpec == ParserInit /\ [][ParserNext]_vars

TypeOK ==
    /\ pc \in {"init", "poll", "react", "sleep", "stopped", "crashed"}
    /\ seen_announcements \subseteq Ids
    /\ last_refresh_time \in {None} \cup 0..MaxTime
    /\ now \in 0..MaxTime
    /\ new_announcements \in Seq(Ids)
    /\ startup_ids \subseteq Ids
    /\ initial_ids \subseteq Ids
    /\ claimed \subseteq Ids
    /\ reacted \subseteq Ids
    /\ heartbeat_sent \in BOOLEAN
    /\ cycle_error \in {"none", "fetch", "reaction"}
    /\ heartbeat_log \in Seq(0..MaxTime)
    /\ fetched \subseteq Ids
    /\ undelivered \in {None} \cup Ids
    /\ feed \in Seq(Ids)
    /\ proxy_index \in 0..MaxPool
    /\ parsed_proxies \in Seq(Hosts)
    /\ proxy_log \in Seq({None} \cup Hosts)

\* ================================================================ claims

\* C1: process_new_announcement_message is invoked at most once per announcement
\* id and place_order at most once per id, over all cycles and fetch results; an
\* id waiting for its reaction waits once and has never been reacted to (a claim
\* attempt on an id already in seen_announcements adds nothing to the batch).
C1_AtMostOneReactionPerId ==
    /\ \A id \in Ids : react[id].invoked <= 1 /\ react[id].orders <= 1
    /\ \A i \in DOMAIN new_announcements :
          react[new_announcements[i]].invoked = 0
    /\ \A i, j \in DOMAIN new_announcements :
          new_announcements[i] = new_announcements[j] => i = j

\* A cycle that started with an empty ledger got a result longer than the set
\* of ids it claimed (an id came twice in one result), and each claimed id has
\* been reacted to once.
C1_Witness ==
    /\ pc = "sleep"
    /\ claimed # {}
    /\ claimed = seen_announcements
    /\ fetch.returned > Cardinality(claimed)
    /\ \A id \in claimed : react[id].invoked = 1

\* C2: every announcement a polling cycle claims has had its reaction invoked
\* once when the cycle is over, whatever the reactions to the others did; and no
\* id is in seen_announcements after a cycle without having been in the
\* Initializing fetch or having had its reaction invoked.
C2_EveryClaimedIsReacted ==
    pc = "sleep" =>
        /\ \A id \in claimed : react[id].invoked = 1
        /\ \A id \in seen_announcements :
              id \in initial_ids \/ react[id].invoked >= 1

\* C3: the ids of the Initializing fetch are in seen_announcements before the
\* first cycle, the Initializing state notifies and orders nothing, and a cycle
\* reacts to exactly the ids of its fetch result that were not seen at its start.
C3_StartupPopulation ==
    /\ pc \in {"poll", "react", "sleep"} => initial_ids \subseteq seen_announcements
    /\ fetch.by = "init" =>
          /\ \A id \in Ids : react[id] = NoReaction
          /\ heartbeat_log = <<>>
    /\ pc = "sleep" => reacted = claimed

\* C4: an announcement that was in the feed when monitoring started never gets
\* a reaction, whatever the outcome of the Initializing fetch.
C4_StartupItemsNeverReacted ==
    \A id \in startup_ids : react[id].invoked = 0

\* C5: fetch_announcements never raises, and returns the empty sequence whenever
\* its request (and, after a proxy failure, its fallback request) got no notice
\* list.
C5_FetchNeverRaises ==
    /\ ~fetch.raised
    /\ fetch.failed => fetch.returned = 0

\* C6: the reaction to an announcement whose title does not match the listing
\* pattern does not raise, requests no order and hands exactly one notification
\* to Telegram.
C6_NoMatchStillNotifies ==
    \A id \in Ids :
        react[id].title = "nomatch" =>
            /\ react[id].raised = "no"
            /\ react[id].orders = 0
            /\ react[id].notified = 1

\* C7: when place_order raises, the reaction does not raise: place_order was
\* called once, the failure text is in the message, and the message was handed
\* to Telegram once.
C7_OrderFailureContained ==
    \A id \in Ids :
        react[id].order_raised =>
            /\ react[id].raised = "no"
            /\ react[id].orders = 1
            /\ react[id].notified = 1
            /\ react[id].response = "error"

\* An announcement whose order step failed and whose notification went out.
C7_Witness ==
    \E id \in Ids : react[id].order_raised /\ react[id].notified = 1

\* C8: an error raised in a polling cycle is caught at the loop boundary, which
\* sleeps; and after every cycle, failed or not, the loop is back at its top and
\* the next cycle's fetch runs, unless the stop signal comes.
C8_LoopSurvivesCycleErrors ==
    /\ [](cycle_error # "none" => pc = "sleep")
    /\ [][(pc \in {"poll", "react", "sleep"}) => (pc' \in {"poll", "react", "sleep", "stopped"})]_vars
    /\ (pc = "sleep") ~> (pc = "poll" \/ pc = "stopped")
    /\ (pc = "poll") ~> (fetch.by = "cycle" \/ pc = "stopped")

\* A cycle whose reaction raised, caught and asleep before the next cycle.
C8_Witness == pc = "sleep" /\ cycle_error = "reaction" /\ claimed # reacted

\* C9: run_monitor ends only on the stop signal: no error ends it.
C9_OnlyStopTerminates == pc # "crashed"

\* C10: any two heartbeats are more than HeartbeatInterval apart, and a cycle
\* that found a new announcement sends none.
C10_HeartbeatSpacing ==
    /\ \A i, j \in DOMAIN heartbeat_log :
          i < j => heartbeat_log[j] - heartbeat_log[i] > HeartbeatInterval
    /\ heartbeat_sent => claimed = {} /\ new_announcements = <<>>

\* The second heartbeat has just been sent, after cycles without one.
C10_Witness == heartbeat_sent /\ Len(heartbeat_log) = 2

\* C11: a polling cycle that ended without an error and found no new
\* announcement, its fetch result empty or not, has sent the heartbeat and set
\* last_refresh_time to the current time, unless a heartbeat was sent within the
\* last HeartbeatInterval.
C11_HeartbeatWhenDue ==
    (pc = "sleep" /\ fetch.by = "cycle" /\ cycle_error = "none" /\ claimed = {}) =>
        /\ heartbeat_sent \/
              (last_refresh_time # None /\ now - last_refresh_time <= HeartbeatInterval)
        /\ heartbeat_sent => last_refresh_time = now

\* C12: with a pool of N >= 1 parsed proxies the cursor is in 0..N-1, the first
\* N calls of get_next_proxy return the pool in insertion order, any N
\* consecutive calls return the pool's entries once each in that cyclic order,
\* and the call after them returns what the first of them returned, whatever the
\* fetches did; with an empty pool every call returns None and the request of
\* the fetch is direct.
C12_RoundRobin ==
    LET N == Len(parsed_proxies)
        L == Len(proxy_log)
    IN  /\ N >= 1 =>
              /\ proxy_index \in 0..(N - 1)
              /\ L >= N => SubSeq(proxy_log, 1, N) = parsed_proxies
              /\ \A s \in 1..L :
                    /\ s + N - 1 <= L =>
                          \E r \in 0..(N - 1) : \A j \in 0..(N - 1) :
                              proxy_log[s + j] = parsed_proxies[((r + j) % N) + 1]
                    /\ s + N <= L => proxy_log[s + N] = proxy_log[s]
        /\ N = 0 =>
              /\ proxy_index = 0
              /\ \A s \in 1..L : proxy_log[s] = None
              /\ L > 0 => call.requests[1] = "direct"

\* A pool of two different endpoints has been gone round more than once, the
\* last fetch having failed.
C12_Witness ==
    /\ Len(parsed_proxies) = 2
    /\ parsed_proxies[1] # parsed_proxies[2]
    /\ Len(proxy_log) > 2
    /\ call.first = "network_error"

\* The monitor was given proxy strings, none of them well formed, and fetched
\* directly.
C12_WitnessEmptyPool ==
    /\ proxy_list # <<>>
    /\ parsed_proxies = <<>>
    /\ Len(proxy_log) > 0

\* C13: a fetch_announcements call that decoded a response, that of its first
\* request or that of the direct retry, returns the notice list of that response
\* in reversed order: as many items, the i-th returned being the i-th from the
\* end of the list.
C13_ReturnsReversedNotices ==
    (call.first # "none" /\ ~call.raised) =>
        /\ Len(call.value) = Len(call.notices)
        /\ \A i \in 1..Len(call.notices) :
              call.value[i] = call.notices[Len(call.notices) + 1 - i]

\* The direct retry after a proxy failure decoded a list of different items.
C13_Witness ==
    /\ Len(call.requests) = 2
    /\ Len(call.notices) = MaxNotices
    /\ call.notices[1] # call.notices[MaxNotices]
    /\ call.value # <<>>

\* The keyword taken out of a token where it stands as a word of its own, with
\* the blanks next to it.
WholeWordStripped(s) ==
    LET gone(k) ==
            /\ s[k] = "Market"
            /\ (k = 1 \/ s[k - 1] \notin Words)
            /\ (k = Len(s) \/ s[k + 1] \notin Words)
        drop(k) ==
            \/ gone(k)
            \/ s[k] = " " /\ ((k > 1 /\ gone(k - 1)) \/ (k < Len(s) /\ gone(k + 1)))
        F[k \in 0..Len(s)] ==
            IF k = 0 THEN <<>>
            ELSE IF drop(k) THEN F[k - 1] ELSE Append(F[k - 1], s[k])
    IN  F[Len(s)]

\* The record the title of a listing is to give: its symbol, its name, and its
\* tokens in order, each without the whole-word keyword, the empty ones left out.
ExpectedRecord(sh) ==
    [status |-> "record",
     symbol |-> sh.symbol,
     name |-> sh.name,
     quote |-> SelectSeq([k \in 1..Len(sh.tokens) |-> Strip(WholeWordStripped(sh.tokens[k]))],
                         LAMBDA c : c # <<>>)]

\* C14: for a title "Market Support for <Name>(<SYMBOL>) (<C1>, ..., <Cn> Market)"
\* (symbol directly in its parentheses, a blank before the trailing keyword, some
\* token not empty) extract_market_info returns the symbol, the name and the
\* tokens in order, whole-word keyword and blanks stripped, empty tokens
\* dropped; for a title of another shape it returns no record.
C14_ParsesListingTitles ==
    parsed # Pending =>
        /\ (/\ shape.kind = "listing"
            /\ shape.spacing.in_symbol = 0
            /\ shape.spacing.before_market >= 1
            /\ \E k \in 1..Len(shape.tokens) : shape.tokens[k] # <<>>)
              => parsed = ExpectedRecord(shape)
        /\ shape.kind = "other" => parsed = NoRecord

\* C15: a listing title gives the same parse result whatever its blanks: zero
\* or more before either parenthesis group, around the commas, inside the
\* groups and before the trailing keyword give what the canonical spacing gives.
C15_WhitespaceInvariant ==
    (parsed # Pending /\ shape.kind = "listing") =>
        parsed = extract_market_info(Build([shape EXCEPT !.spacing = Canonical]))

\* C16: an announcement whose notification Telegram did not take: its reaction
\* returned without raising, the notification was handed over once and not
\* again, its id is in seen_announcements, one order was requested for it, and
\* it is neither reacted to again nor waiting for a reaction, in this cycle and
\* in all later ones.
C16_DeliveryFailureChangesNothing ==
    undelivered # None =>
        /\ react[undelivered].raised = "no"
        /\ react[undelivered].notified = 1
        /\ react[undelivered].invoked = 1
        /\ react[undelivered].orders = 1
        /\ undelivered \in seen_announcements
        /\ \A i \in DOMAIN new_announcements : new_announcements[i] # undelivered

\* A later cycle fetched the announcement whose notification failed, the only
\* one in the ledger, and found nothing new.
C16_Witness ==
    /\ undelivered # None
    /\ seen_announcements = {undelivered}
    /\ initial_ids = {}
    /\ fetch.by = "cycle"
    /\ fetch.returned > 0
    /\ claimed = {}
    /\ now > 0

\* C17: a fetch_announcements call issues one request or two; it issues the
\* second exactly when the first ended in a proxy failure, and the second is
\* direct; nothing follows the second, whatever its outcome, and no other
\* failure of the first is retried.
C17_AtMostOneDirectRetry ==
    call.first # "none" =>
        /\ Len(call.requests) \in {1, 2}
        /\ Len(call.requests) = 2 <=> call.first = "proxy_error"
        /\ Len(call.requests) = 2 => call.requests[2] = "direct"

\* A call through a proxy whose direct retry failed as well: two requests, an
\* empty result.
C17_Witness ==
    /\ call.first = "proxy_error"
    /\ call.requests = <<"proxy", "direct">>
    /\ call.notices = <<>>
    /\ call.value = <<>>
    /\ ~call.raised

\* C18: when the reaction to a new announcement starts, its id is in
\* seen_announcements and the ids of the new announcements of the same fetch
\* result that come after it are not yet.
C18_ClaimedJustBeforeReaction ==
    pc = "react" =>
        /\ Head(new_announcements) \in seen_announcements
        /\ \A i \in 2..Len(new_announcements) :
              new_announcements[i] \notin seen_announcements

\* The place of an id's last entry in a notice list, 0 if it has none.
LastPlace(list, id) ==
    IF \E i \in DOMAIN list : list[i] = id
    THEN CHOOSE i \in DOMAIN list :
            list[i] = id /\ \A j \in DOMAIN list : list[j] = id => j <= i
    ELSE 0

\* C19: the reactions of a polling cycle are invoked one at a time, oldest
\* first: each reaction is to a new announcement of the feed response (newest
\* first as it came), and every new announcement of that response not yet
\* reacted to stands before it in the response, that is, is newer.
C19_ReactionsOldestFirst ==
    [][reacted' # reacted =>
          \E id \in Ids :
              /\ id \notin reacted
              /\ reacted' = reacted \cup {id}
              /\ id \in Range(feed) \ initial_ids
              /\ \A j \in (Range(feed) \ initial_ids) \ reacted' :
                    LastPlace(feed, j) < LastPlace(feed, id)]_vars

\* A cycle whose response listed two new announcements has reacted to both.
C19_Witness ==
    /\ pc = "sleep"
    /\ cycle_error = "none"
    /\ Len(feed) = 2
    /\ feed[1] # feed[2]
    /\ reacted = {feed[1], feed[2]}

\* C20: no step of the run takes an id out of seen_announcements, and every id
\* in it was returned by some fetch_announcements call.
C20_LedgerOnlyGrows ==
    /\ [][seen_announcements \subseteq seen_announcements']_vars
    /\ [](seen_announcements \subseteq fetched)

\* The ledger holds the ids of the Initializing fetch and those a later cycle
\* claimed, after that cycle was aborted by a reaction that raised.
C20_Witness ==
    /\ pc = "sleep"
    /\ cycle_error = "reaction"
    /\ initial_ids # {}
    /\ claimed # {}
    /\ seen_announcements = initial_ids \cup claimed

\* C21: the proxy pool and its cursor change only through get_next_proxy.  The
\* list given at construction and the pool parsed from it never change, the
\* pool being the well-formed entries of the list in their order; a step in
\* which a fetch_announcements call ended, however it ended and with or
\* without the direct retry, moved the cursor one place on modulo the pool
\* size (an empty pool has no cursor to move); every other step (a reaction,
\* the sleep, the stop) left the cursor where it was.
FetchEnded == fetch' # NoFetch /\ fetch' # fetch
WellFormed(list) ==
    LET good == SelectSeq(list, LAMBDA s : s.parts = 4)
    IN  [i \in 1..Len(good) |-> good[i].host]
C21_CursorMovesOnlyInFetch ==
    /\ [](/\ Len(parsed_proxies) = Len(WellFormed(proxy_list))
          /\ \A i \in 1..Len(parsed_proxies) :
                parsed_proxies[i] = WellFormed(proxy_list)[i])
    /\ [][/\ proxy_list' = proxy_list
          /\ parsed_proxies' = parsed_proxies
          /\ proxy_index' =
                IF FetchEnded /\ parsed_proxies # <<>>
                THEN (proxy_index + 1) % Len(parsed_proxies)
                ELSE proxy_index]_vars

\* A monitor with two proxies whose third fetch failed: the cursor has gone
\* round once and stands on the second proxy, after a reaction and a heartbeat.
C21_Witness ==
    /\ Len(parsed_proxies) = 2
    /\ proxy_index = 1
    /\ fetch.by = "cycle"
    /\ fetch.failed
    /\ heartbeat_log # <<>>
    /\ \E id \in Ids : react[id].invoked > 0

\* A monitor whose list had an entry lacking a field: the pool is shorter than
\* the list, and fetches have been made with it.
C21_WitnessMalformedDropped ==
    /\ Len(proxy_list) > Len(parsed_proxies)
    /\ parsed_proxies # <<>>
    /\ fetch.by = "cycle"
    /\ heartbeat_log # <<>>
====
